---- MODULE Spec2Model ----
(***************************************************************************)
(* Bitfield accessor of src/main.cpp: copyBit and the two specializations  *)
(* of Bitfield<T, position, size, bitOrder> (LSBAtZero, MSBAtZero), with   *)
(* their single-byte get/set and their multi-byte get.                     *)
(*                                                                         *)
(* A byte is a number in 0..255.  The value type T is a record             *)
(* [bytes |-> sizeof(T), signed |-> whether T is a signed integer type].   *)
(* A T object is held as the function ref : 0..sizeof(T)-1 -> byte that    *)
(* reinterpret_cast<uint8_t*> gives the code, with ref[0] the low-order    *)
(* byte (the little-endian layout of the x86-64 / AArch64 builds), and is  *)
(* read back as T in two's complement.                                     *)
(*                                                                         *)
(* A size_t (64 bits) is held by its representative n nearest to 0:        *)
(* n >= 0 stands for n and n < 0 for 2^64 + n, so SIZE_MAX is -1.  On      *)
(* representatives +, - and * are the operations modulo 2^64; the          *)
(* unsigned comparisons are SizeT_less and SizeT_lessEq.  A byteOffset     *)
(* enters only as 8*byteOffset, so its representative stands for every     *)
(* value equal to it modulo 2^61.                                          *)
(*                                                                         *)
(* C++ int and unsigned arithmetic on bytes is modelled on unbounded       *)
(* two's-complement integers: with shift counts below 32 no intermediate   *)
(* value loses bits before it is truncated to uint8_t (% 256).             *)
(***************************************************************************)
EXTENDS Integers, Sequences, FiniteSets

\* ---------------------------------------------------------------- bounds

\* Largest sizeof(T) of the value types instantiated (8- and 16-bit types).
MaxSizeofT == 2
\* Largest arraySize of the buffers handed to the multi-byte get (a1 in main).
MaxArraySize == 3
\* The size_t template arguments near SIZE_MAX: SIZE_MAX - MaxWrap + 1 .. SIZE_MAX.
MaxWrap == 1

\* ------------------------------------------------- C++ integer operators

\* a & b on two's-complement integers (\div floors, % is non-negative).
RECURSIVE BitAnd(_, _)
BitAnd(a, b) ==
    IF a = 0 \/ b = 0 THEN 0
    ELSE IF a = -1 THEN b
    ELSE IF b = -1 THEN a
    ELSE (a % 2) * (b % 2) + 2 * BitAnd(a \div 2, b \div 2)

\* a | b on two's-complement integers.
RECURSIVE BitOr(_, _)
BitOr(a, b) ==
    IF a = 0 THEN b
    ELSE IF b = 0 THEN a
    ELSE IF a = -1 \/ b = -1 THEN -1
    ELSE (IF a % 2 = 1 \/ b % 2 = 1 THEN 1 ELSE 0) + 2 * BitOr(a \div 2, b \div 2)

\* ~a
BitNot(a) == -a - 1

\* a << k and a >> k, for a count the shift is defined for.
ShiftLeft(a, k) == a * (2 ^ k)
ShiftRight(a, k) == a \div (2 ^ k)

\* A shift of an int or unsigned (32 bits) by the size_t count k is defined
\* only for k < 32.
ShiftCountOk(k) == 0 <= k /\ k < 32

\* Conversion of an int result to uint8_t.
ToUint8(a) == a % 256

\* a < b and a <= b on size_t.
SizeT_less(a, b) == IF (a < 0) = (b < 0) THEN a < b ELSE b < 0
SizeT_lessEq(a, b) == a = b \/ SizeT_less(a, b)

\* ---------------------------------------------------------------- copyBit

\* Mutant: an OR-merge, the destination bit is never cleared.
copyBit_orMerge(dest, destPosition, src, srcPosition) ==
    IF BitAnd(src, ShiftLeft(1, srcPosition)) # 0
    THEN ToUint8(BitOr(dest, ShiftLeft(1, destPosition)))
    ELSE dest

copyBit(dest, destPosition, src, srcPosition) ==
    IF BitAnd(src, ShiftLeft(1, srcPosition)) # 0
    THEN ToUint8(BitOr(dest, ShiftLeft(1, destPosition)))
    ELSE ToUint8(BitAnd(dest, BitNot(ShiftLeft(1, destPosition))))

\* ------------------------------------------------------- the value type T

\* The integer types T of the instantiations: (u)int8_t, (u)int16_t, ...
Types == {[bytes |-> n, signed |-> s] : n \in 1 .. MaxSizeofT, s \in BOOLEAN}

sizeof(T) == T.bytes

\* numeric_limits<T>::min() and max()
MinOf(T) == IF T.signed THEN -(2 ^ (8 * sizeof(T) - 1)) ELSE 0
MaxOf(T) == IF T.signed THEN 2 ^ (8 * sizeof(T) - 1) - 1 ELSE 2 ^ (8 * sizeof(T)) - 1

\* T temp{} seen through ref: sizeof(T) zero bytes.
ZeroT(T) == [k \in 0 .. sizeof(T) - 1 |-> 0]

\* The bytes of a T value (reinterpret_cast<const uint8_t*>(&value)).
RefOf(value, T) == [k \in 0 .. sizeof(T) - 1 |-> (value \div (256 ^ k)) % 256]

\* The T value held in the bytes ref[k ..]: the top byte carries the sign of
\* a signed T.
RECURSIVE ValueOfFrom(_, _, _)
ValueOfFrom(ref, k, T) ==
    IF k >= sizeof(T) THEN 0
    ELSE IF k = sizeof(T) - 1
    THEN (IF T.signed /\ ref[k] >= 128 THEN ref[k] - 256 ELSE ref[k])
    ELSE ref[k] + 256 * ValueOfFrom(ref, k + 1, T)

\* return temp
ValueOf(ref, T) == ValueOfFrom(ref, 0, T)

\* --------------------------------------------- static_assert (single byte)

StaticAssertByte(position, size) == SizeT_lessEq(position + size, 8)

\* --------------------------------------- Bitfield<..., BitOrder::LSBAtZero>

\* Whether data >> position and 0xFF >> (8-size) are defined.
LSBAtZero_get_defined(position, size) ==
    ShiftCountOk(position) /\ ShiftCountOk(8 - size)

\* Mutant: the byte is masked without being shifted down.
LSBAtZero_get_noShift(T, position, size, data) ==
    LET temp == ZeroT(T)
        ref == [temp EXCEPT ![0] = ToUint8(BitAnd(data, ShiftRight(255, 8 - size)))]
    IN  ValueOf(ref, T)

LSBAtZero_get(T, position, size, data) ==
    LET temp == ZeroT(T)
        ref == [temp EXCEPT ![0] =
                   ToUint8(BitAnd(ShiftRight(data, position), ShiftRight(255, 8 - size)))]
    IN  ValueOf(ref, T)

\* Whether 0xFF >> (8-size) and (...) << position are defined.
LSBAtZero_set_defined(position, size) ==
    ShiftCountOk(8 - size) /\ ShiftCountOk(position)

\* Mutant: the old field is cleared with the mask left at bit 0.
LSBAtZero_set_maskAtZero(T, position, size, data, value) ==
    LET ref == RefOf(value, T)
        masked == ToUint8(BitAnd(data, BitNot(ShiftRight(255, 8 - size))))
    IN  ToUint8(BitOr(masked,
            ShiftLeft(BitAnd(ref[0], ShiftRight(255, 8 - size)), position)))

\* Mutant: the value is shifted in without being masked to size bits.
LSBAtZero_set_unmasked(T, position, size, data, value) ==
    LET ref == RefOf(value, T)
        masked == ToUint8(BitAnd(data,
                      BitNot(ShiftLeft(ShiftRight(255, 8 - size), position))))
    IN  ToUint8(BitOr(masked, ShiftLeft(ref[0], position)))

LSBAtZero_set(T, position, size, data, value) ==
    LET ref == RefOf(value, T)
        masked == ToUint8(BitAnd(data,
                      BitNot(ShiftLeft(ShiftRight(255, 8 - size), position))))
    IN  ToUint8(BitOr(masked,
            ShiftLeft(BitAnd(ref[0], ShiftRight(255, 8 - size)), position)))

\* --------------------------------------- Bitfield<..., BitOrder::MSBAtZero>

\* Whether every copyBit of the loop shifts by a count below 32.
RECURSIVE MSBAtZero_getLoop_defined(_, _, _)
MSBAtZero_getLoop_defined(posSrc, position, size) ==
    IF SizeT_less(posSrc, position + size)
    THEN /\ ShiftCountOk(position + size - 1 - posSrc)
         /\ ShiftCountOk(posSrc)
         /\ MSBAtZero_getLoop_defined(posSrc + 1, position, size)
    ELSE TRUE

MSBAtZero_get_defined(position, size) ==
    MSBAtZero_getLoop_defined(position, position, size)

RECURSIVE MSBAtZero_getLoop(_, _, _, _, _)
MSBAtZero_getLoop(ref, posSrc, position, size, data) ==
    IF SizeT_less(posSrc, position + size)
    THEN LET posDes == position + size - 1 - posSrc
         IN  MSBAtZero_getLoop([ref EXCEPT ![0] = copyBit(ref[0], posDes, data, posSrc)],
                               posSrc + 1, position, size, data)
    ELSE ref

\* Mutant: the field is copied without reversing it (posDes counts up).
RECURSIVE MSBAtZero_getLoop_forward(_, _, _, _, _)
MSBAtZero_getLoop_forward(ref, posSrc, position, size, data) ==
    IF SizeT_less(posSrc, position + size)
    THEN LET posDes == posSrc - position
         IN  MSBAtZero_getLoop_forward(
                 [ref EXCEPT ![0] = copyBit(ref[0], posDes, data, posSrc)],
                 posSrc + 1, position, size, data)
    ELSE ref

MSBAtZero_get_forward(T, position, size, data) ==
    ValueOf(MSBAtZero_getLoop_forward(ZeroT(T), position, position, size, data), T)

MSBAtZero_get(T, position, size, data) ==
    ValueOf(MSBAtZero_getLoop(ZeroT(T), position, position, size, data), T)

\* Whether every copyBit of the loop shifts by a count below 32 (with a size
\* near SIZE_MAX the loop runs on until one does not).
RECURSIVE MSBAtZero_setLoop_defined(_, _, _)
MSBAtZero_setLoop_defined(posSrc, position, size) ==
    IF SizeT_less(posSrc, size)
    THEN /\ ShiftCountOk(position + size - 1 - posSrc)
         /\ ShiftCountOk(posSrc)
         /\ MSBAtZero_setLoop_defined(posSrc + 1, position, size)
    ELSE TRUE

MSBAtZero_set_defined(position, size) ==
    MSBAtZero_setLoop_defined(0, position, size)

RECURSIVE MSBAtZero_setLoop(_, _, _, _, _)
MSBAtZero_setLoop(data, posSrc, position, size, ref) ==
    IF SizeT_less(posSrc, size)
    THEN LET posDes == position + size - 1 - posSrc
         IN  MSBAtZero_setLoop(copyBit(data, posDes, ref[0], posSrc),
                               posSrc + 1, position, size, ref)
    ELSE data

\* Mutant: the value is written without reversing it.
MSBAtZero_set_forward(T, position, size, data, value) ==
    LSBAtZero_set(T, position, size, data, value)

MSBAtZero_set(T, position, size, data, value) ==
    MSBAtZero_setLoop(data, 0, position, size, RefOf(value, T))

\* ---------------------------------------------- the multi-byte get (array)

StaticAssertArray(position, size, byteOffset, arraySize) ==
    SizeT_lessEq(position + size + (8 * byteOffset), 8 * arraySize)

StaticAssertType(T, size) == SizeT_lessEq(size, sizeof(T) * 8)

\* auto srcBit = desBit + startBit;  (before srcBit %= 8)
LSBAtZero_srcBit(desBit, startBit) == desBit + startBit

\* auto srcBit = endBit - desBit - 1;  (before srcBit %= 8)
MSBAtZero_srcBit(desBit, endBit) == endBit - desBit - 1

\* Whether the iteration reads inside data (srcBit / 8 < arraySize, as size_t)
\* and writes inside temp (desBit / 8 < sizeof(T)).
Iter_defined(srcBit, desBit, arraySize, T) ==
    /\ srcBit >= 0
    /\ srcBit \div 8 < arraySize
    /\ desBit \div 8 < sizeof(T)

\* Mutant: every bit is written to ref[0], desBit/8 is forgotten.
LSBAtZero_getArrayIter_firstByte(ref, desBit, startBit, data) ==
    LET srcBit == LSBAtZero_srcBit(desBit, startBit)
        srcByte == srcBit \div 8
    IN  [ref EXCEPT ![0] = copyBit(ref[0], desBit % 8, data[srcByte], srcBit % 8)]

\* One iteration of the loop body of the LSBAtZero multi-byte get.
LSBAtZero_getArrayIter(ref, desBit, startBit, data) ==
    LET srcBit == LSBAtZero_srcBit(desBit, startBit)
        srcByte == srcBit \div 8
    IN  [ref EXCEPT ![desBit \div 8] =
            copyBit(ref[desBit \div 8], desBit % 8, data[srcByte], srcBit % 8)]

RECURSIVE LSBAtZero_getArrayLoop(_, _, _, _, _)
LSBAtZero_getArrayLoop(ref, desBit, size, startBit, data) ==
    IF SizeT_less(desBit, size)
    THEN LSBAtZero_getArrayLoop(LSBAtZero_getArrayIter(ref, desBit, startBit, data),
                                desBit + 1, size, startBit, data)
    ELSE ref

LSBAtZero_getArray(T, position, size, byteOffset, data) ==
    LET startBit == position + (8 * byteOffset)
    IN  ValueOf(LSBAtZero_getArrayLoop(ZeroT(T), 0, size, startBit, data), T)

\* Mutant: the destination bit is counted from the top of its byte.
MSBAtZero_getArrayIter_mirrored(ref, desBit, endBit, data) ==
    LET srcBit == MSBAtZero_srcBit(desBit, endBit)
        srcByte == srcBit \div 8
    IN  [ref EXCEPT ![desBit \div 8] =
            copyBit(ref[desBit \div 8], 7 - (desBit % 8), data[srcByte], srcBit % 8)]

\* One iteration of the loop body of the MSBAtZero multi-byte get.
MSBAtZero_getArrayIter(ref, desBit, endBit, data) ==
    LET srcBit == MSBAtZero_srcBit(desBit, endBit)
        srcByte == srcBit \div 8
    IN  [ref EXCEPT ![desBit \div 8] =
            copyBit(ref[desBit \div 8], desBit % 8, data[srcByte], srcBit % 8)]

RECURSIVE MSBAtZero_getArrayLoop(_, _, _, _, _)
MSBAtZero_getArrayLoop(ref, desBit, size, endBit, data) ==
    IF SizeT_less(desBit, size)
    THEN MSBAtZero_getArrayLoop(MSBAtZero_getArrayIter(ref, desBit, endBit, data),
                                desBit + 1, size, endBit, data)
    ELSE ref

MSBAtZero_getArray(T, position, size, byteOffset, data) ==
    LET startBit == position + (8 * byteOffset)
        endBit == startBit + size
    IN  ValueOf(MSBAtZero_getArrayLoop(ZeroT(T), 0, size, endBit, data), T)

\* ------------------------------------------------------------ the program

VARIABLES
    bitOrder,   \* template argument: "LSBAtZero" or "MSBAtZero"
    T,          \* template argument T
    position,   \* template argument position (size_t)
    size,       \* template argument size (size_t)
    form,       \* which overloads the caller uses: "byte" or "array"
    x,          \* the caller's byte (uint8_t x in main)
    before,     \* x as it was when the last set was called
    arg,        \* the caller's argument expression of the last set (an int)
    value,      \* the parameter value of the last set: arg converted to T
    arraySize,  \* template argument arraySize of the multi-byte get
    byteOffset, \* template argument byteOffset of the multi-byte get (size_t)
    data,       \* the caller's buffer, 0 .. arraySize-1 -> byte
    temp,       \* T temp of the running multi-byte get, as its bytes ref
    desBit,     \* loop variable of the multi-byte get
    srcBit,     \* srcBit of the last iteration as computed, before srcBit %= 8
    desByte,    \* index desBit/8 of the byte of temp written by the last iteration
    result,     \* the value returned by the last get
    pc          \* the caller's place: "start", "set", "get", "set_get" (byte form);
                \* "start", "loop", "done" (array form); "undefined" once a
                \* call has run into undefined behaviour

vars == <<bitOrder, T, position, size, form, x, before, arg, value, arraySize,
          byteOffset, data, temp, desBit, srcBit, desByte, result, pc>>

template == <<bitOrder, T, position, size, form, arraySize, byteOffset>>
byteVars == <<x, before, arg, value>>
loopVars == <<temp, desBit, srcBit, desByte>>

BitOrders == {"LSBAtZero", "MSBAtZero"}

\* What a call leaves behind once it has shifted by 32 or more or has read
\* outside the buffer: the language defines no value and no continuation.
Undefined == "undefined"

\* Initial bytes of x for the set/get runs: main's 0b10100011 and what its set
\* leaves (0b10101010), their complements, 0x0F, 0xF0, 0, 0xFF and the bytes
\* with only one of the two lowest or two highest bits set.
ByteSamples ==
    {163, 170, 92, 85, 15, 240, 0, 255, 1, 2, 64, 128}

\* Arguments of set beyond the field's own range 0 .. 2^size - 1.
ValueSamples == {-32768, -128, -1, 5, 163, 256, 421, 65535}

\* The int arguments handed to set: every value that fits the field, and the
\* samples.
Values(s) ==
    (IF 0 <= s /\ s <= 8 THEN 0 .. (2 ^ s) - 1 ELSE {}) \cup ValueSamples

\* The conversion of the int argument to the parameter const T& value.
ConvertTo(type, v) == ValueOf(RefOf(v, type), type)

\* Bytes the buffers are filled from: main's a1 and x, and the complement of x.
BytePattern == <<2, 33, 128, 163, 92>>

\* The buffers of n bytes: BytePattern from each of its places on, cyclically.
Buffers(n) ==
    {[i \in 0 .. n - 1 |-> BytePattern[((i + k) % Len(BytePattern)) + 1]] :
        k \in 0 .. Len(BytePattern) - 1}

\* std::array<uint8_t, 3> a1 of main.
Main_a1 == [i \in 0 .. 2 |-> <<2, 33, 128>>[i + 1]]

get(order, type, p, s, byte) ==
    IF order = "LSBAtZero" THEN LSBAtZero_get(type, p, s, byte)
                           ELSE MSBAtZero_get(type, p, s, byte)

get_defined(order, p, s) ==
    IF order = "LSBAtZero" THEN LSBAtZero_get_defined(p, s)
                           ELSE MSBAtZero_get_defined(p, s)

set(order, type, p, s, byte, v) ==
    IF order = "LSBAtZero" THEN LSBAtZero_set(type, p, s, byte, v)
                           ELSE MSBAtZero_set(type, p, s, byte, v)

set_defined(order, p, s) ==
    IF order = "LSBAtZero" THEN LSBAtZero_set_defined(p, s)
                           ELSE MSBAtZero_set_defined(p, s)

getArray(order, type, p, s, off, buf) ==
    IF order = "LSBAtZero" THEN LSBAtZero_getArray(type, p, s, off, buf)
                           ELSE MSBAtZero_getArray(type, p, s, off, buf)

\* A program that instantiates Bitfield<T, position, size, bitOrder> and calls
\* its single-byte get and set on a byte x: only instantiations that pass the
\* static_assert are built.
InitByteForm(bytes) ==
    /\ bitOrder \in BitOrders
    /\ T \in Types
    /\ position \in -MaxWrap .. 8
    /\ size \in -MaxWrap .. 8 + MaxWrap
    /\ StaticAssertByte(position, size)
    /\ form = "byte"
    /\ x \in bytes
    /\ before = x
    /\ arg = 0
    /\ value = 0
    /\ arraySize = 0
    /\ byteOffset = 0
    /\ data = << >>
    /\ temp = << >>
    /\ desBit = 0
    /\ srcBit = 0
    /\ desByte = 0
    /\ result = 0
    /\ pc = "start"

\* A program that calls get<arraySize, byteOffset>(data) on a buffer of
\* arraySize bytes: only instantiations that pass both static_asserts are built.
InitArrayForm ==
    /\ bitOrder \in BitOrders
    /\ T \in Types
    /\ arraySize \in 1 .. MaxArraySize
    /\ byteOffset \in -MaxWrap .. MaxArraySize
    /\ position \in -MaxWrap .. 8 * MaxArraySize
    /\ size \in -MaxWrap .. 8 * MaxSizeofT
    /\ StaticAssertArray(position, size, byteOffset, arraySize)
    /\ StaticAssertType(T, size)
    /\ form = "array"
    /\ data \in Buffers(arraySize)
    /\ x = 0
    /\ before = 0
    /\ arg = 0
    /\ value = 0
    /\ temp = << >>
    /\ desBit = 0
    /\ srcBit = 0
    /\ desByte = 0
    /\ result = 0
    /\ pc = "start"

Init == InitByteForm(ByteSamples)

InitGet == InitByteForm(0 .. 255) \/ InitArrayForm

\* set(x, v)
Set(v) ==
    /\ form = "byte"
    /\ pc = "start"
    /\ StaticAssertByte(position, size)
    /\ before' = x
    /\ arg' = v
    /\ value' = ConvertTo(T, v)
    /\ IF set_defined(bitOrder, position, size)
       THEN /\ x' = set(bitOrder, T, position, size, x, value')
            /\ pc' = "set"
       ELSE /\ x' = Undefined
            /\ pc' = "undefined"
    /\ UNCHANGED <<template, data, loopVars, result>>

\* get(x), on the byte as constructed ("get") or as set left it ("set_get").
Get ==
    /\ form = "byte"
    /\ pc \in {"start", "set"}
    /\ StaticAssertByte(position, size)
    /\ IF get_defined(bitOrder, position, size)
       THEN /\ result' = get(bitOrder, T, position, size, x)
            /\ pc' = IF pc = "set" THEN "set_get" ELSE "get"
       ELSE /\ result' = Undefined
            /\ pc' = "undefined"
    /\ UNCHANGED <<template, byteVars, data, loopVars>>

\* get<arraySize, byteOffset>(data) up to its loop: T temp{}; desBit = 0.
GetArrayEnter ==
    /\ form = "array"
    /\ pc = "start"
    /\ StaticAssertArray(position, size, byteOffset, arraySize)
    /\ StaticAssertType(T, size)
    /\ temp' = ZeroT(T)
    /\ desBit' = 0
    /\ pc' = "loop"
    /\ UNCHANGED <<template, byteVars, data, srcBit, desByte, result>>

\* One iteration of the loop.  A read outside data or a write outside temp is
\* undefined behaviour.
GetArrayIter ==
    /\ form = "array"
    /\ pc = "loop"
    /\ SizeT_less(desBit, size)
    /\ LET startBit == position + (8 * byteOffset)
           endBit == startBit + size
       IN  /\ srcBit' = IF bitOrder = "LSBAtZero"
                        THEN LSBAtZero_srcBit(desBit, startBit)
                        ELSE MSBAtZero_srcBit(desBit, endBit)
           /\ desByte' = desBit \div 8
           /\ IF Iter_defined(srcBit', desBit, arraySize, T)
              THEN /\ temp' = IF bitOrder = "LSBAtZero"
                              THEN LSBAtZero_getArrayIter(temp, desBit, startBit, data)
                              ELSE MSBAtZero_getArrayIter(temp, desBit, endBit, data)
                   /\ desBit' = desBit + 1
                   /\ pc' = "loop"
              ELSE /\ temp' = Undefined
                   /\ desBit' = desBit
                   /\ pc' = "undefined"
    /\ UNCHANGED <<template, byteVars, data, result>>

\* The loop's exit and return temp.
GetArrayReturn ==
    /\ form = "array"
    /\ pc = "loop"
    /\ ~SizeT_less(desBit, size)
    /\ result' = ValueOf(temp, T)
    /\ pc' = "done"
    /\ UNCHANGED <<template, byteVars, data, loopVars>>

Next ==
    \/ \E v \in Values(size) : Set(v)
    \/ Get

NextGet ==
    \/ Get
    \/ GetArrayEnter
    \/ GetArrayIter
    \/ GetArrayReturn

\* Single-byte set and get on sampled bytes.
Spec == Init /\ [][Next]_vars

\* Every get: the single-byte get on every byte, the multi-byte get on buffers.
SpecGet == InitGet /\ [][NextGet]_vars

\* ------------------------------------------------- operators of the claims

Bit(n, i) == (n \div (2 ^ i)) % 2

\* The n-bit reversal of v: bit i of the result is bit n-1-i of v.
RECURSIVE ReverseBits(_, _)
ReverseBits(v, n) ==
    IF n = 0 THEN 0 ELSE (v % 2) * (2 ^ (n - 1)) + ReverseBits(v \div 2, n - 1)

OtherOrder(order) == IF order = "LSBAtZero" THEN "MSBAtZero" ELSE "LSBAtZero"

\* The number of bits of T, and the bits of a T value as a number.
Width(type) == 8 * sizeof(type)
Pattern(v, type) == v % (2 ^ Width(type))

\* The value of T whose low n bits are those of m < 2^n and whose other bits
\* are zero: m, unless T is signed and n is all of T and bit n-1 is set.
Reading(m, n, type) ==
    IF type.signed /\ n = Width(type) /\ m >= 2 ^ (n - 1) THEN m - 2 ^ n ELSE m

\* position + size <= 8 as numbers, not modulo 2^64.
FieldInByte == position >= 0 /\ size >= 0 /\ position + size <= 8

InField(i) == position <= i /\ i < position + size

\* The bit of a value that the bit order puts at bit i of the byte.
FieldBit(v, i) ==
    IF bitOrder = "LSBAtZero" THEN Bit(v, i - position)
                              ELSE Bit(v, position + size - 1 - i)

AfterSet == form = "byte" /\ pc \in {"set", "set_get"}
AfterGet == form = "byte" /\ pc \in {"get", "set_get"}

\* ------------------------------------------------------------------ claims

\* C1 (as amended): after set(b, v) with size >= 1, position + size <= 8 and
\* 0 <= v < 2^size, get on the resulting byte returns the value of T whose
\* low size bits are v: v itself, except that a signed T as wide as the field
\* reads v >= 2^(size-1) back as v - 2^size.
RoundTripInT ==
    (form = "byte" /\ pc = "set_get" /\ FieldInByte /\ size >= 1
        /\ 0 <= arg /\ arg < 2 ^ size)
        => result = Reading(arg, size, T)

RoundTripInTWitness ==
    /\ form = "byte" /\ pc = "set_get" /\ bitOrder = "MSBAtZero"
    /\ T.signed /\ sizeof(T) = 1 /\ position = 0 /\ size = 8
    /\ arg = 200 /\ value = -56
    /\ x # before /\ x = ReverseBits(200, 8)
    /\ result = -56

\* C1 as stated: get after set(b, v) returns exactly v for every v in
\* 0 .. 2^size - 1.
RoundTrip ==
    (form = "byte" /\ pc = "set_get" /\ FieldInByte /\ size >= 1
        /\ 0 <= arg /\ arg < 2 ^ size)
        => result = arg

\* C2: set leaves every bit of the byte outside [position, position+size)
\* as it was before the call.
NonInterference ==
    (AfterSet /\ FieldInByte)
        => \A i \in 0 .. 7 : ~InField(i) => Bit(x, i) = Bit(before, i)

NonInterferenceWitness ==
    /\ form = "byte" /\ pc = "set"
    /\ position >= 1 /\ size >= 1 /\ position + size < 8
    /\ Bit(before, position - 1) = 1 /\ Bit(before, position + size) = 1
    /\ Bit(before, 0) # Bit(before, 7)
    /\ x # before
    /\ x \div (2 ^ (position + size)) = before \div (2 ^ (position + size))
    /\ x % (2 ^ position) = before % (2 ^ position)

\* C3 (as amended): the single-byte get in LSBAtZero order returns the value
\* of T whose low size bits are (byte >> position) & (2^size - 1) and whose
\* other bits are zero; that is a value in 0 .. 2^size - 1 unless T is signed
\* and as wide as the field, where a field with its top bit set reads as
\* that number minus 2^size.  A size-1 field returns bit position of the byte.
LSBGetFieldBits ==
    (form = "byte" /\ pc = "get" /\ bitOrder = "LSBAtZero" /\ FieldInByte)
        => LET n == (x \div (2 ^ position)) % (2 ^ size)
           IN  /\ result = Reading(n, size, T)
               /\ \A i \in 0 .. size - 1 : Bit(result, i) = Bit(x, position + i)
               /\ \A i \in size .. Width(T) - 1 : Bit(result, i) = 0
               /\ (~(T.signed /\ size = Width(T))) => result \in 0 .. (2 ^ size) - 1
               /\ size = 1 => result = Bit(x, position)

LSBGetFieldBitsWitness ==
    /\ form = "byte" /\ pc = "get" /\ bitOrder = "LSBAtZero"
    /\ T.signed /\ sizeof(T) = 1 /\ position = 0 /\ size = 8
    /\ x = 200
    /\ result = -56

\* C3 as stated: the result is (byte >> position) & (2^size - 1), a value in
\* 0 .. 2^size - 1.
LSBGetIsShiftMask ==
    (form = "byte" /\ pc = "get" /\ bitOrder = "LSBAtZero" /\ FieldInByte)
        => /\ result = (x \div (2 ^ position)) % (2 ^ size)
           /\ result \in 0 .. (2 ^ size) - 1
           /\ size = 1 => result = Bit(x, position)

\* C4: get in one bit order returns the size-bit reversal of what get in the
\* other order returns for the same position, size and buffer (result bit i
\* of one is result bit size-1-i of the other): the single-byte get, and the
\* multi-byte get with the reversal taken over the whole field.
OrderSymmetry ==
    /\ (form = "byte" /\ pc = "get" /\ FieldInByte)
          => LET other == get(OtherOrder(bitOrder), T, position, size, x)
             IN  /\ Pattern(result, T) = ReverseBits(Pattern(other, T), size)
                 /\ \A i \in 0 .. size - 1 :
                       Bit(result, i) = Bit(other, size - 1 - i)
    /\ (form = "array" /\ pc = "done")
          => LET other == getArray(OtherOrder(bitOrder), T, position, size,
                                   byteOffset, data)
             IN  /\ Pattern(result, T) = ReverseBits(Pattern(other, T), size)
                 /\ \A i \in 0 .. size - 1 :
                       Bit(result, i) = Bit(other, size - 1 - i)

OrderSymmetryWitness ==
    /\ form = "array" /\ pc = "done" /\ bitOrder = "MSBAtZero"
    /\ size > 8 /\ position % 8 # 0 /\ byteOffset = 1
    /\ result > 0 /\ result # ReverseBits(result, size)
    /\ result = ReverseBits(
           LSBAtZero_getArray(T, position, size, byteOffset, data), size)

\* C5: the multi-byte get in LSBAtZero order: bit i of the result is bit
\* (startBit + i) mod 8 of buffer byte (startBit + i) div 8, the bits from
\* size on are zero; [0b00000010, 0b00100001, 0b10000000] with position 7,
\* size 9, byteOffset 0 gives the bits of byte 0 bit 7 .. byte 1 bit 7,
\* LSB first (0b001000010).
MultiByteLSBGet ==
    (form = "array" /\ pc = "done" /\ bitOrder = "LSBAtZero")
        => LET startBit == position + 8 * byteOffset
           IN  /\ \A i \in 0 .. size - 1 :
                     Bit(result, i) =
                        Bit(data[(startBit + i) \div 8], (startBit + i) % 8)
               /\ \A i \in size .. Width(T) - 1 : Bit(result, i) = 0
               /\ (data = Main_a1 /\ position = 7 /\ size = 9
                      /\ byteOffset = 0)
                     => result = 66

MultiByteLSBGetWitness ==
    /\ form = "array" /\ pc = "done" /\ bitOrder = "LSBAtZero"
    /\ data = Main_a1 /\ arraySize = 3
    /\ position = 7 /\ size = 9 /\ byteOffset = 0
    /\ sizeof(T) = 2 /\ ~T.signed
    /\ result = 66

\* C6: set consults only the low-order size bits of the value: the byte it
\* leaves is the old byte outside the field and, in the field, the bits of
\* value mod 2^size, so two values equal mod 2^size leave the same byte.
SetReadsLowBitsOnly ==
    (AfterSet /\ FieldInByte) =>
        \A i \in 0 .. 7 :
            Bit(x, i) = IF InField(i) THEN FieldBit(arg % (2 ^ size), i)
                                      ELSE Bit(before, i)

SetReadsLowBitsOnlyWitness ==
    /\ form = "byte" /\ pc = "set"
    /\ arg >= 256 /\ (arg % 256) >= 2 ^ size
    /\ size >= 2 /\ position + size < 8
    /\ x # before

\* C7 (as amended): for the byte 0b10100011 the single-byte get of the field
\* (position 4, size 4, MSBAtZero) returns 0b0101, the reversal of the high
\* nibble 1010.
Scenario1Reversed ==
    (form = "byte" /\ pc = "get" /\ bitOrder = "MSBAtZero"
        /\ position = 4 /\ size = 4 /\ x = 163)
        => result = 5

Scenario1Witness ==
    /\ form = "byte" /\ pc = "get" /\ bitOrder = "MSBAtZero"
    /\ position = 4 /\ size = 4 /\ x = 163 /\ T.signed
    /\ result = 5

\* C7 as stated: the same get returns 0b1101.
Scenario1AsStated ==
    (form = "byte" /\ pc = "get" /\ bitOrder = "MSBAtZero"
        /\ position = 4 /\ size = 4 /\ x = 163)
        => result = 13

\* C8 (as amended): with an 8-bit T, position 0 and size 8, get returns the
\* value of T whose bits are the byte's (LSBAtZero) or the byte's 8-bit
\* reversal (MSBAtZero), and set leaves the byte holding the bits of the
\* value (LSBAtZero) or their 8-bit reversal (MSBAtZero).
FullWidthCopy ==
    (form = "byte" /\ sizeof(T) = 1 /\ position = 0 /\ size = 8)
        => /\ AfterGet =>
                 result = Reading(IF bitOrder = "LSBAtZero" THEN x
                                                             ELSE ReverseBits(x, 8),
                                  8, T)
           /\ AfterSet =>
                 x = IF bitOrder = "LSBAtZero" THEN arg % 256
                                               ELSE ReverseBits(arg % 256, 8)

FullWidthCopyWitness ==
    /\ form = "byte" /\ sizeof(T) = 1 /\ ~T.signed /\ position = 0 /\ size = 8
    /\ bitOrder = "MSBAtZero" /\ pc = "set_get"
    /\ x # before /\ x # ReverseBits(x, 8)
    /\ x = ReverseBits(arg, 8) /\ result = arg

\* C8 as stated: get(b) returns b and set(b, v) leaves v, in each bit order,
\* for every byte b and every 8-bit v.
FullWidthIdentity ==
    (form = "byte" /\ sizeof(T) = 1 /\ position = 0 /\ size = 8)
        => /\ AfterGet => result = x
           /\ (AfterSet /\ 0 <= arg /\ arg <= 255) => x = arg

\* C9: a width-0 field is rejected: no get or set of a descriptor with
\* size = 0 is accepted and executed.
WidthZeroRejected ==
    ~(size = 0 /\ pc \in {"get", "set", "set_get", "loop", "done"})

\* C10: in every iteration of the multi-byte get's loop the buffer index
\* read (srcBit / 8, a size_t) is < arraySize and the index of temp written
\* is < sizeof(T); the loop ends after exactly size iterations.
IndexSafety ==
    form = "array"
        => /\ (pc = "undefined" \/ desBit > 0)
                 => /\ SizeT_less(srcBit, 8 * arraySize)
                    /\ desByte < sizeof(T)
           /\ pc = "loop" => SizeT_lessEq(desBit, size)
           /\ pc = "done" => desBit = size

====
